---- MODULE Spec2Model ----
(***************************************************************************)
(* Model of the Illustrator MCP server (src/illustrator/server.py): the    *)
(* tool registry, the dispatcher handle_call_tool with its two bridge      *)
(* helpers, and the serial request loop that drives it.                    *)
(*                                                                         *)
(* A text is a sequence of string tokens: every literal piece and every    *)
(* interpolated value of an f-string is one token, so "the text contains   *)
(* v" is "v is one of its tokens".  The emoji prefixes of the category     *)
(* labels are left out of the label strings.                               *)
(***************************************************************************)
EXTENDS Naturals, Sequences, FiniteSets, TLC

VARIABLES
    WIN32_AVAILABLE,  \* module flag set by the guarded import
    tempFiles,        \* .jsx files present in the temp directory
    nextTemp,         \* number of temp files created so far (names are fresh)
    last,             \* record of the most recent handle_call_tool invocation
    pc,               \* "idle", or "hung" inside a bridge call that never returns
    inbox,            \* requests sent by the client and not yet read
    outbox,           \* ids of the requests answered, in answer order
    nsent             \* number of requests the client has sent

vars == <<WIN32_AVAILABLE, tempFiles, nextTemp, last, pc, inbox, outbox, nsent>>

----------------------------------------------------------------------------
(* Bounds *)

MaxTemp == 2    \* temp files created in one run of the model
MaxSent == 3    \* requests the client sends in one run of the served model

----------------------------------------------------------------------------
(* Small helpers *)

Range(s) == {s[i] : i \in 1..Len(s)}

Contains(text, tok) == \E i \in 1..Len(text) : text[i] = tok

Prefix(s, n) == SubSeq(s, 1, n)

----------------------------------------------------------------------------
(* Content items and handler results *)

TextContent(text) == [type |-> "text", text |-> text]

ImageContent(mimeType, data) == [type |-> "image", mimeType |-> mimeType, data |-> data]

Return(items) == [kind |-> "return", items |-> items]

Raise(exc, msg) == [kind |-> "raise", exc |-> exc, msg |-> msg]

Hang == [kind |-> "hang"]

\* What one invocation did: its result, the bridge and store operations it
\* started (in order), the temp files it created, those it left behind, and
\* str(e) of the exception a collaborator raised ("" when none did).
Eff(result, bridge, store, created, left, failed) ==
    [result |-> result, bridge |-> bridge, store |-> store,
     created |-> created, left |-> left, failed |-> failed]

Pure(result) == Eff(result, <<>>, <<>>, {}, {}, "")

----------------------------------------------------------------------------
(* Behaviour of the collaborators during one call: step `at` of the calls  *)
(* the handler makes raises or never returns; at = 0 means all succeed.    *)

OK == [at |-> 0, how |-> "ok"]

Raises(i) == [at |-> i, how |-> "raise"]

Hangs(i) == [at |-> i, how |-> "hang"]

ViewSteps == <<"Dispatch(WScript.Shell)", "AppActivate", "ImageGrab.grab", "screenshot.save">>

RunSteps == <<"NamedTemporaryFile", "jsx_file.write", "Dispatch(Illustrator.Application)",
              "DoJavaScriptFile", "os.unlink">>

\* str(e) of the exception raised by an operation
ExcText(op) == "exception in " \o op

----------------------------------------------------------------------------
(* Tool Registry *)

Tool(name, properties, required, enum) ==
    [name |-> name, properties |-> properties, required |-> required, enum |-> enum]

\* the catalog, in listing order; `enum` holds the closed value set of the
\* tool's enum-constrained property (category, template_type)
handle_list_tools ==
    << Tool("view", {}, {}, <<>>),
       Tool("run", {"code"}, {"code"}, <<>>),
       Tool("get_prompt_suggestions", {"category"}, {},
            <<"basic_shapes", "typography", "logos", "illustrations",
              "icons", "artistic", "charts", "print">>),
       Tool("get_system_prompt", {}, {}, <<>>),
       Tool("get_prompting_tips", {}, {}, <<>>),
       Tool("get_advanced_template", {"template_type", "parameters"}, {"template_type"},
            <<"logo_design", "illustration", "infographic", "icon_set">>),
       Tool("help", {}, {}, <<>>) >>

ToolNames == {handle_list_tools[i].name : i \in 1..Len(handle_list_tools)}

Descriptor(name) ==
    CHOOSE t \in Range(handle_list_tools) : t.name = name

----------------------------------------------------------------------------
(* Template Store (illustrator/prompt.py)                                  *)

\* category label -> suggestions, in the store's order
StoreLabels ==
    <<"Basic Shapes & Geometry", "Typography & Text", "Logos & Branding",
      "Illustrations & Scenes", "Icons & UI Elements", "Artistic & Creative",
      "Charts & Infographics", "Print & Layout">>

get_prompt_suggestions ==
    [l \in Range(StoreLabels) |-> <<"first suggestion: " \o l, "second suggestion: " \o l>>]

get_system_prompt == "SYSTEM PROMPT"

get_prompting_tips == <<"tip 1", "tip 2", "tip 3">>

display_help == "HELP TEXT"

\* the placeholder token of a named parameter, as it stands in a template
Placeholder(k) == "{" \o k \o "}"

ParamNames ==
    {"company_name", "industry", "style", "colors", "elements", "size",
     "subject", "topic", "count", "mood"}

Placeholders == {Placeholder(k) : k \in ParamNames}

NameOf(tok) == CHOOSE k \in ParamNames : Placeholder(k) = tok

\* template id -> template text with named placeholders
get_advanced_templates ==
    [logo_design |->
        <<"Create a logo for ", "{company_name}", " in the ", "{industry}",
          " industry. Style: ", "{style}", ". Colors: ", "{colors}",
          ". Elements: ", "{elements}", ". Size: ", "{size}">>,
     illustration |->
        <<"Create an illustration of ", "{subject}", " in ", "{style}", " style">>,
     infographic |->
        <<"Create an infographic about ", "{topic}", " using ", "{colors}">>,
     icon_set |->
        <<"Create ", "{count}", " icons in ", "{style}", " style at ", "{size}">>]

TemplateIds == DOMAIN get_advanced_templates

\* the parameters a template references, in template order
RequiredParams(template) ==
    SelectSeq(template, LAMBDA tok : tok \in Placeholders)

RECURSIVE Substitute(_, _)
Substitute(template, params) ==
    IF template = <<>> THEN <<>>
    ELSE LET tok == Head(template)
         IN  <<IF tok \in Placeholders THEN params[NameOf(tok)] ELSE tok>>
             \o Substitute(Tail(template), params)

\* the name of format_advanced_template's own first parameter: the server
\* calls format_advanced_template(template_type, **parameters), so a key of
\* that name in `parameters` is a second value for it and the call is a
\* TypeError before the function body runs
FormatterArg == "template_type"

\* template.format(**params): the first referenced placeholder without a
\* supplied value is a KeyError; supplied values nothing references are unused
format_advanced_template(template_type, params) ==
    IF FormatterArg \in DOMAIN params
    THEN [ok |-> FALSE, exc |-> "TypeError", arg |-> "got multiple values for argument"]
    ELSE IF template_type \notin TemplateIds
    THEN [ok |-> FALSE, exc |-> "ValueError", arg |-> template_type]
    ELSE LET template == get_advanced_templates[template_type]
             missing == SelectSeq(RequiredParams(template),
                                  LAMBDA tok : NameOf(tok) \notin DOMAIN params)
         IN  IF missing # <<>>
             THEN [ok |-> FALSE, exc |-> "KeyError", arg |-> NameOf(Head(missing))]
             ELSE [ok |-> TRUE, text |-> Substitute(template, params)]

\* str(KeyError(k)) is repr(k)
Repr(k) == "'" \o k \o "'"

\* str.title() of the id with "_" replaced by " "
Title(template_type) ==
    CASE template_type = "logo_design"  -> "Logo Design"
      [] template_type = "illustration" -> "Illustration"
      [] template_type = "infographic"  -> "Infographic"
      [] template_type = "icon_set"     -> "Icon Set"
      [] OTHER                          -> template_type

TemplateOrder == <<"logo_design", "illustration", "infographic", "icon_set">>

----------------------------------------------------------------------------
(* Argument bags.  A bag is None (given = FALSE) or a mapping; `keys` is   *)
(* the mapping's key set and the other fields hold the values of the keys  *)
(* present.                                                                *)

NoParams == [k \in {} |-> ""]

Bag(keys, code, category, template_type, parameters) ==
    [given |-> TRUE, keys |-> keys, code |-> code, category |-> category,
     template_type |-> template_type, parameters |-> parameters]

None == [given |-> FALSE, keys |-> {}, code |-> "", category |-> "",
         template_type |-> "", parameters |-> NoParams]

\* `not arguments`
Falsy(arguments) == ~arguments.given \/ arguments.keys = {}

\* `arguments.get(k) if arguments else None` is a non-empty string
TruthyStr(arguments, k) ==
    /\ ~Falsy(arguments)
    /\ k \in arguments.keys
    /\ arguments[k] # ""

\* `arguments.get("parameters", {}) if arguments else {}`
ParametersOf(arguments) ==
    IF ~Falsy(arguments) /\ "parameters" \in arguments.keys
    THEN arguments.parameters
    ELSE NoParams

----------------------------------------------------------------------------
(* Automation Bridge helpers *)

Win32Msg == "Win32 COM not available. Please install pywin32 and restart the server."

\* a `code` value that is not a string: code.encode raises AttributeError
NotAString == "<code is not a str>"

\* a list or dict given where a string is expected: hashing it raises TypeError
Unhashable == "<unhashable value>"

\* capture_attempt without its except clause: the exception leaves the function
capture_attempt_nocatch(o) ==
    IF o.at \in 1..Len(ViewSteps)
    THEN IF o.how = "raise"
         THEN Eff(Raise("Exception", <<ExcText(ViewSteps[o.at])>>),
                  Prefix(ViewSteps, o.at), <<>>, {}, {}, ExcText(ViewSteps[o.at]))
         ELSE Eff(Hang, Prefix(ViewSteps, o.at), <<>>, {}, {}, "")
    ELSE Eff(Return(<<ImageContent("image/jpeg", "base64(jpeg(screenshot))")>>),
             ViewSteps, <<>>, {}, {}, "")

\* the try block of capture_illustrator and its except clause
capture_attempt(o) ==
    IF o.at \in 1..Len(ViewSteps)
    THEN LET op == ViewSteps[o.at]
         IN  IF o.how = "raise"
             THEN Eff(Return(<<TextContent(<<"Failed to capture screenshot: ", ExcText(op)>>)>>),
                      Prefix(ViewSteps, o.at), <<>>, {}, {}, ExcText(op))
             ELSE Eff(Hang, Prefix(ViewSteps, o.at), <<>>, {}, {}, "")
    ELSE Eff(Return(<<ImageContent("image/jpeg", "base64(jpeg(screenshot))")>>),
             ViewSteps, <<>>, {}, {}, "")

\* capture_illustrator without the WIN32_AVAILABLE test
capture_illustrator_nocheck(win32, o) == capture_attempt(o)

capture_illustrator(win32, o) ==
    IF ~win32
    THEN Pure(Return(<<TextContent(<<Win32Msg>>)>>))
    ELSE capture_attempt(o)

\* run_attempt writing to one fixed script path opened for exclusive creation:
\* a script left behind by an earlier failed call makes every later call fail
run_attempt_fixedname(code, o, files, path) ==
    IF files # {}
    THEN Eff(Return(<<TextContent(<<"Failed to execute script: ", "FileExistsError">>)>>),
             <<RunSteps[1]>>, <<>>, {}, {}, "FileExistsError")
    ELSE IF o.at \in 1..Len(RunSteps)
    THEN IF o.how = "raise"
         THEN Eff(Return(<<TextContent(<<"Failed to execute script: ", ExcText(RunSteps[o.at])>>)>>),
                  Prefix(RunSteps, o.at), <<>>, IF o.at = 1 THEN {} ELSE {path},
                  IF o.at = 1 THEN {} ELSE {path}, ExcText(RunSteps[o.at]))
         ELSE Eff(Hang, Prefix(RunSteps, o.at), <<>>, {path}, {path}, "")
    ELSE Eff(Return(<<TextContent(<<"Script executed successfully">>)>>),
             RunSteps, <<>>, {path}, {}, "")

\* The try block of run_illustrator_script and its except clause.  `files`
\* is the temp directory before the call and `path` the fresh name
\* NamedTemporaryFile picks.  The file exists from step 1 on (delete=False)
\* and is removed only by os.unlink, the last statement of the try body.
\* File contents (the encoded `code`) are not tracked.
run_attempt(code, o, files, path) ==
    LET created == IF o.at = 1 THEN {} ELSE {path}
        failure(done, msg) ==
            Eff(Return(<<TextContent(<<"Failed to execute script: ", msg>>)>>),
                Prefix(RunSteps, done), <<>>, created, created, msg)
    IN  IF o.at = 1
        THEN failure(1, ExcText(RunSteps[1]))
        ELSE IF code = NotAString
        THEN failure(1, "AttributeError: object has no attribute 'encode'")
        ELSE IF o.at \in 2..Len(RunSteps)
        THEN IF o.how = "raise"
             THEN failure(o.at, ExcText(RunSteps[o.at]))
             ELSE Eff(Hang, Prefix(RunSteps, o.at), <<>>, created, created, "")
        ELSE Eff(Return(<<TextContent(<<"Script executed successfully">>)>>),
                 RunSteps, <<>>, created, {}, "")

run_illustrator_script(code, win32, o, files, path) ==
    IF ~win32
    THEN Pure(Return(<<TextContent(<<Win32Msg>>)>>))
    ELSE run_attempt(code, o, files, path)

----------------------------------------------------------------------------
(* Dispatcher: the branches of handle_call_tool *)

view_branch(win32, o) == capture_illustrator(win32, o)

\* run_branch testing only `not arguments`: a bag without "code" reaches the bridge
run_branch_nokeycheck(arguments, win32, o, files, path) ==
    IF Falsy(arguments)
    THEN Pure(Return(<<TextContent(<<"No code provided">>)>>))
    ELSE run_illustrator_script(arguments.code, win32, o, files, path)

run_branch(arguments, win32, o, files, path) ==
    IF Falsy(arguments) \/ "code" \notin arguments.keys
    THEN Pure(Return(<<TextContent(<<"No code provided">>)>>))
    ELSE run_illustrator_script(arguments.code, win32, o, files, path)

\* category_map with one key drifted from the registry's enum ("logo" for "logos")
category_map_drifted ==
    << <<"basic_shapes",  "Basic Shapes & Geometry">>,
       <<"typography",    "Typography & Text">>,
       <<"logo",          "Logos & Branding">>,
       <<"illustrations", "Illustrations & Scenes">>,
       <<"icons",         "Icons & UI Elements">>,
       <<"artistic",      "Artistic & Creative">>,
       <<"charts",        "Charts & Infographics">>,
       <<"print",         "Print & Layout">> >>

\* the dict literal of the get_prompt_suggestions branch, in key order
category_map ==
    << <<"basic_shapes",  "Basic Shapes & Geometry">>,
       <<"typography",    "Typography & Text">>,
       <<"logos",         "Logos & Branding">>,
       <<"illustrations", "Illustrations & Scenes">>,
       <<"icons",         "Icons & UI Elements">>,
       <<"artistic",      "Artistic & Creative">>,
       <<"charts",        "Charts & Infographics">>,
       <<"print",         "Print & Layout">> >>

\* list(category_map.keys())
CategoryKeys == [i \in 1..Len(category_map) |-> category_map[i][1]]

\* category_map.get(category): the label, or "" for None
CategoryGet(category) ==
    IF \E i \in 1..Len(category_map) : category_map[i][1] = category
    THEN category_map[CHOOSE i \in 1..Len(category_map) : category_map[i][1] = category][2]
    ELSE ""

RECURSIVE Bullets(_)
Bullets(prompts) ==
    IF prompts = <<>> THEN <<>>
    ELSE <<"* ", Head(prompts), "\n">> \o Bullets(Tail(prompts))

RECURSIVE Sections(_, _)
Sections(labels, suggestions) ==
    IF labels = <<>> THEN <<>>
    ELSE <<"## ", Head(labels), "\n\n">> \o Bullets(suggestions[Head(labels)]) \o <<"\n">>
         \o Sections(Tail(labels), suggestions)

ErrorItem(op) == Return(<<TextContent(<<"Error: ", ExcText(op)>>)>>)

TypeErrorText == "unhashable type"

get_prompt_suggestions_branch(arguments, o) ==
    IF o = Raises(1)
    THEN Eff(ErrorItem("get_prompt_suggestions"), <<>>, <<"get_prompt_suggestions">>,
             {}, {}, ExcText("get_prompt_suggestions"))
    ELSE IF TruthyStr(arguments, "category") /\ arguments.category = Unhashable
    THEN Eff(Return(<<TextContent(<<"Error: ", TypeErrorText>>)>>), <<>>,
             <<"get_prompt_suggestions">>, {}, {}, TypeErrorText)
    ELSE LET suggestions == get_prompt_suggestions
             result_text ==
                 IF TruthyStr(arguments, "category")
                 THEN LET category == arguments.category
                          full_category == CategoryGet(category)
                      IN  IF full_category # "" /\ full_category \in DOMAIN suggestions
                          THEN <<"**", full_category, "**\n\n">>
                               \o Bullets(suggestions[full_category])
                          ELSE <<"Category '", category, "' not found. Available categories: ">>
                               \o CategoryKeys
                 ELSE <<"# Illustrator Prompt Suggestions\n\n">>
                      \o Sections(StoreLabels, suggestions)
         IN  Eff(Return(<<TextContent(result_text)>>), <<>>, <<"get_prompt_suggestions">>,
                 {}, {}, "")

get_system_prompt_branch(o) ==
    IF o = Raises(1)
    THEN Eff(ErrorItem("get_system_prompt"), <<>>, <<"get_system_prompt">>,
             {}, {}, ExcText("get_system_prompt"))
    ELSE Eff(Return(<<TextContent(<<get_system_prompt>>)>>), <<>>, <<"get_system_prompt">>,
             {}, {}, "")

RECURSIVE Lines(_)
Lines(tips) ==
    IF tips = <<>> THEN <<>> ELSE <<Head(tips), "\n">> \o Lines(Tail(tips))

get_prompting_tips_branch(o) ==
    IF o = Raises(1)
    THEN Eff(ErrorItem("get_prompting_tips"), <<>>, <<"get_prompting_tips">>,
             {}, {}, ExcText("get_prompting_tips"))
    ELSE Eff(Return(<<TextContent(<<"# Prompting Tips for Adobe Illustrator\n\n">>
                                  \o Lines(get_prompting_tips))>>),
             <<>>, <<"get_prompting_tips">>, {}, {}, "")

\* no `except KeyError` clause: the KeyError reaches the branch's `except Exception`
missing_parameter_text_error(template_type, template, e) == <<"Error: ", e>>

\* the except KeyError handler: the raw template and the missing name
missing_parameter_text(template_type, template, e) ==
    <<"**", Title(template_type), " Template:**\n\n">> \o template \o <<"\n\n">>
    \o <<"**Missing parameter:** ", e, "\n">>
    \o <<"Please provide the required parameters to fill in the template.">>

get_advanced_template_branch(arguments, o) ==
    IF ~TruthyStr(arguments, "template_type")
    THEN Pure(Return(<<TextContent(<<"Template type is required">>)>>))
    ELSE IF o = Raises(1)
    THEN Eff(ErrorItem("get_advanced_templates"), <<>>, <<"get_advanced_templates">>,
             {}, {}, ExcText("get_advanced_templates"))
    ELSE IF arguments.template_type = Unhashable
    THEN Eff(Return(<<TextContent(<<"Error: ", TypeErrorText>>)>>), <<>>,
             <<"get_advanced_templates">>, {}, {}, TypeErrorText)
    ELSE LET template_type == arguments.template_type
             parameters == ParametersOf(arguments)
             templates == get_advanced_templates
         IN  IF template_type \in DOMAIN templates
             THEN IF DOMAIN parameters # {}
                  THEN LET store == <<"get_advanced_templates", "format_advanced_template">>
                           r == format_advanced_template(template_type, parameters)
                       IN  IF o = Raises(2)
                           THEN Eff(ErrorItem("format_advanced_template"), <<>>, store,
                                    {}, {}, ExcText("format_advanced_template"))
                           ELSE IF r.ok
                           THEN Eff(Return(<<TextContent(r.text)>>), <<>>, store, {}, {}, "")
                           ELSE IF r.exc = "KeyError"
                           THEN Eff(Return(<<TextContent(
                                        missing_parameter_text(template_type,
                                            templates[template_type], Repr(r.arg)))>>),
                                    <<>>, store, {}, {}, Repr(r.arg))
                           ELSE Eff(Return(<<TextContent(<<"Error: ", r.arg>>)>>),
                                    <<>>, store, {}, {}, r.arg)
                  ELSE Eff(Return(<<TextContent(<<"**", Title(template_type), " Template:**\n\n">>
                                                \o templates[template_type])>>),
                           <<>>, <<"get_advanced_templates">>, {}, {}, "")
             ELSE Eff(Return(<<TextContent(<<"Template '", template_type,
                                             "' not found. Available templates: ">>
                                           \o TemplateOrder)>>),
                      <<>>, <<"get_advanced_templates">>, {}, {}, "")

\* the else branch softened into a Text item like every other failure
unknown_tool_text(name) == Pure(Return(<<TextContent(<<"Unknown tool: ", name>>)>>))

unknown_tool(name) == Pure(Raise("ValueError", <<"Unknown tool: ", name>>))

\* the dispatch chain without its "help" case: the name falls to the else branch
help_branch_unrouted(o) == unknown_tool("help")

help_branch(o) ==
    IF o = Raises(1)
    THEN Eff(ErrorItem("display_help"), <<>>, <<"display_help">>, {}, {}, ExcText("display_help"))
    ELSE Eff(Return(<<TextContent(<<display_help>>)>>), <<>>, <<"display_help">>, {}, {}, "")

handle_call_tool(name, arguments, win32, o, files, path) ==
    IF name = "view" THEN view_branch(win32, o)
    ELSE IF name = "run" THEN run_branch(arguments, win32, o, files, path)
    ELSE IF name = "get_prompt_suggestions" THEN get_prompt_suggestions_branch(arguments, o)
    ELSE IF name = "get_system_prompt" THEN get_system_prompt_branch(o)
    ELSE IF name = "get_prompting_tips" THEN get_prompting_tips_branch(o)
    ELSE IF name = "get_advanced_template" THEN get_advanced_template_branch(arguments, o)
    ELSE IF name = "help" THEN help_branch(o)
    ELSE unknown_tool(name)

----------------------------------------------------------------------------
(* Inputs *)

NameInputs ==
    {"view", "run", "get_prompt_suggestions", "get_system_prompt", "get_prompting_tips",
     "get_advanced_template", "help", "delete_all", "View"}

CodeInputs == {"app.documents.add();", "", NotAString}

CategoryInputs ==
    {"basic_shapes", "typography", "logos", "illustrations", "icons", "artistic",
     "charts", "print", "bogus", "", Unhashable}

TemplateInputs ==
    {"logo_design", "illustration", "infographic", "icon_set", "nonexistent", "", Unhashable}

FullLogo ==
    [company_name |-> "Acme", industry |-> "technology", style |-> "minimalist",
     colors |-> "blue and white", elements |-> "lettermark", size |-> "1024x1024"]

PartialLogo == [k \in (DOMAIN FullLogo) \ {"colors"} |-> FullLogo[k]]

ExtraLogo ==
    [k \in (DOMAIN FullLogo) \cup {"mood"} |-> IF k = "mood" THEN "playful" ELSE FullLogo[k]]

OnlyExtra == [k \in {"mood"} |-> "playful"]

Colliding == [k \in {FormatterArg} |-> "icon_set"]

ParamInputs == {NoParams, FullLogo, PartialLogo, ExtraLogo, OnlyExtra, Colliding}

CommonArgs ==
    {None, Bag({}, "", "", "", NoParams), Bag({"verbose"}, "", "", "", NoParams)}

\* the argument bags tried with a tool: absent, empty, a mapping without the
\* tool's keys, and mappings over the keys the tool's branch reads
ArgInputs(name) ==
    CASE name = "run" ->
           CommonArgs
           \cup {Bag({"code"}, c, "", "", NoParams) : c \in CodeInputs}
           \cup {Bag({"category"}, "", "logos", "", NoParams)}
      [] name = "get_prompt_suggestions" ->
           CommonArgs
           \cup {Bag({"category"}, "", c, "", NoParams) : c \in CategoryInputs}
      [] name = "get_advanced_template" ->
           CommonArgs
           \cup {Bag({"template_type"}, "", "", t, NoParams) : t \in TemplateInputs}
           \cup {Bag({"template_type", "parameters"}, "", "", t, p) :
                     t \in TemplateInputs, p \in ParamInputs}
           \cup {Bag({"parameters"}, "", "", "", p) : p \in ParamInputs}
      [] OTHER -> CommonArgs

\* what the collaborators may do during a call: any one of the calls the
\* handler makes to them raises, or a COM call of the bridge never returns
Outcomes(name, arguments, win32) ==
    LET e == handle_call_tool(name, arguments, win32, OK, {}, 1)
        n == Len(e.bridge) + Len(e.store)
    IN  {OK} \cup {Raises(i) : i \in 1..n}
        \cup (IF e.bridge = ViewSteps THEN {Hangs(2)} ELSE {})
        \cup (IF e.bridge = RunSteps THEN {Hangs(3), Hangs(4)} ELSE {})

\* the requests the served model's client sends
ServeInputs ==
    { <<"view", None>>,
      <<"run", Bag({"code"}, "app.documents.add();", "", "", NoParams)>>,
      <<"help", None>>,
      <<"delete_all", None>> }

----------------------------------------------------------------------------
(* State machine *)

NoCall ==
    [name |-> "", arguments |-> None, outcome |-> OK, called |-> FALSE,
     result |-> Hang, bridge |-> <<>>, store |-> <<>>,
     created |-> {}, left |-> {}, failed |-> ""]

Init ==
    /\ WIN32_AVAILABLE \in BOOLEAN
    /\ tempFiles = {}
    /\ nextTemp = 0
    /\ last = NoCall
    /\ pc = "idle"
    /\ inbox = <<>>
    /\ outbox = <<>>
    /\ nsent = 0

\* one invocation of handle_call_tool on the event loop: it runs to its
\* return (or raise) before anything else is scheduled, and never finishes
\* when a bridge call it makes does not return
Dispatch(name, arguments, o) ==
    \E e \in {handle_call_tool(name, arguments, WIN32_AVAILABLE, o, tempFiles, nextTemp + 1)} :
        /\ pc = "idle"
        /\ e.created = {} \/ nextTemp < MaxTemp
        /\ tempFiles' = tempFiles \cup e.left
        /\ nextTemp' = nextTemp + Cardinality(e.created)
        /\ last' = [name |-> name, arguments |-> arguments, outcome |-> o, called |-> TRUE,
                    result |-> e.result, bridge |-> e.bridge, store |-> e.store,
                    created |-> e.created, left |-> e.left, failed |-> e.failed]
        /\ pc' = IF e.result = Hang THEN "hung" ELSE "idle"
        /\ UNCHANGED WIN32_AVAILABLE

\* the dispatcher called directly
Call(name, arguments, o) ==
    /\ Dispatch(name, arguments, o)
    /\ UNCHANGED <<inbox, outbox, nsent>>

Next ==
    \E name \in NameInputs :
        \E arguments \in ArgInputs(name) :
            \E o \in Outcomes(name, arguments, WIN32_AVAILABLE) : Call(name, arguments, o)

Spec == Init /\ [][Next]_vars

\* the client writes a request to the transport
Send(name, arguments) ==
    /\ nsent < MaxSent
    /\ nsent' = nsent + 1
    /\ inbox' = Append(inbox, [id |-> nsent + 1, name |-> name, arguments |-> arguments])
    /\ UNCHANGED <<WIN32_AVAILABLE, tempFiles, nextTemp, last, pc, outbox>>

\* the server loop reads the oldest request, runs the handler and answers
Serve ==
    /\ pc = "idle"
    /\ inbox # <<>>
    /\ LET req == Head(inbox)
       IN  \E o \in Outcomes(req.name, req.arguments, WIN32_AVAILABLE) :
              /\ Dispatch(req.name, req.arguments, o)
              /\ inbox' = Tail(inbox)
              /\ outbox' = IF pc' = "hung" THEN outbox ELSE Append(outbox, req.id)
    /\ UNCHANGED nsent

ServeNext ==
    \/ \E r \in ServeInputs : Send(r[1], r[2])
    \/ Serve

ServeSpec == Init /\ [][ServeNext]_vars /\ WF_vars(Serve)

----------------------------------------------------------------------------
(* Properties *)

\* the last invocation ran to its return or raise
Completed == last.called /\ last.result # Hang

RecognizedNames ==
    {"view", "run", "get_prompt_suggestions", "get_system_prompt", "get_prompting_tips",
     "get_advanced_template", "help"}

OneText(result) ==
    /\ result.kind = "return"
    /\ Len(result.items) = 1
    /\ result.items[1].type = "text"

\* C1: for a recognized tool name and any argument bag, nothing propagates
\* out of handle_call_tool; when a bridge or store call raised, the call
\* returns exactly one Text item and its text carries the failure's str(e).
FailuresBecomeText ==
    (Completed /\ last.name \in RecognizedNames) =>
        /\ last.result.kind = "return"
        /\ (last.outcome.how = "raise" \/ last.failed # "") =>
              /\ OneText(last.result)
              /\ last.failed # ""
              /\ Contains(last.result.items[1].text, last.failed)

FailureCaughtWitness ==
    /\ Completed
    /\ last.name = "view"
    /\ last.outcome = Raises(2)
    /\ last.result =
         Return(<<TextContent(<<"Failed to capture screenshot: ", ExcText("AppActivate")>>)>>)

\* C2: a name outside the catalog raises ValueError "Unknown tool: <name>",
\* never returns a Text item, and touches neither the bridge nor the store,
\* whatever the argument bag.
UnknownToolRaises ==
    (last.called /\ last.name \notin ToolNames) =>
        /\ last.result = Raise("ValueError", <<"Unknown tool: ", last.name>>)
        /\ last.bridge = <<>>
        /\ last.store = <<>>
        /\ last.created = {}

UnknownToolWitness ==
    /\ last.called
    /\ last.name = "delete_all"
    /\ last.arguments.given
    /\ last.arguments.keys # {}
    /\ last.result.kind = "raise"

\* C3: `run` with an absent or empty bag, or a bag without "code", returns
\* exactly Text("No code provided") with no bridge call and no temp file;
\* get_advanced_template without a template_type returns one Text item
\* without any store call.
MissingArgumentNoAction ==
    /\ (last.called /\ last.name = "run"
          /\ (~last.arguments.given \/ "code" \notin last.arguments.keys)) =>
          /\ last.result = Return(<<TextContent(<<"No code provided">>)>>)
          /\ last.bridge = <<>>
          /\ last.created = {}
    /\ (last.called /\ last.name = "get_advanced_template"
          /\ (~last.arguments.given \/ "template_type" \notin last.arguments.keys)) =>
          /\ OneText(last.result)
          /\ last.result.items[1].text = <<"Template type is required">>
          /\ last.store = <<>>

MissingCodeWitness ==
    /\ WIN32_AVAILABLE
    /\ last.called
    /\ last.name = "run"
    /\ last.arguments.given
    /\ last.arguments.keys = {"category"}
    /\ last.result = Return(<<TextContent(<<"No code provided">>)>>)

\* C4: after a `run` invocation has returned, whatever the bridge did, no
\* temporary script file is left: whenever the dispatcher is idle the temp
\* directory holds no script.
NoLeftoverTempFiles ==
    pc = "idle" => tempFiles = {}

\* C5: the catalog names are exactly the names the dispatcher does not
\* reject as unknown, and a catalog name dispatched with the arguments its
\* descriptor requires returns exactly one content item, whatever the bridge
\* and the store do.
RegistryDispatchLockstep ==
    Completed =>
        /\ (last.name \in ToolNames) <=> (last.result.kind # "raise")
        /\ (/\ last.name \in ToolNames
            /\ \A k \in Descriptor(last.name).required :
                   last.arguments.given /\ k \in last.arguments.keys)
           => /\ last.result.kind = "return"
              /\ Len(last.result.items) = 1
              /\ last.result.items[1].type \in {"text", "image"}

LockstepWitness ==
    /\ Completed
    /\ last.name = "help"
    /\ ~last.arguments.given
    /\ last.outcome = Raises(1)
    /\ OneText(last.result)

\* C6: the result of a call is the result the same call (same name, same
\* arguments, same behaviour of the collaborators) gets from a dispatcher
\* that has served nothing yet, whatever calls came before and whatever
\* they left behind.
NoStateAcrossCalls ==
    last.called =>
        last.result =
            handle_call_tool(last.name, last.arguments, WIN32_AVAILABLE,
                             last.outcome, {}, 1).result

\* a script run succeeds although an earlier failed run left its file behind
SucceedsAfterFailureWitness ==
    /\ tempFiles # {}
    /\ last.called
    /\ last.name = "run"
    /\ last.left = {}
    /\ last.result = Return(<<TextContent(<<"Script executed successfully">>)>>)

TemplateTools ==
    {"get_prompt_suggestions", "get_system_prompt", "get_prompting_tips",
     "get_advanced_template", "help"}

\* C7: without win32com, `view` and `run` with a code argument return the
\* same fixed Text item and start no bridge operation and create no temp
\* file; the template tools answer as they do with win32com present.
Win32UnavailableDegrades ==
    (~WIN32_AVAILABLE) =>
        /\ tempFiles = {} /\ nextTemp = 0
        /\ (last.called /\ (\/ last.name = "view"
                            \/ (last.name = "run" /\ last.arguments.given
                                  /\ "code" \in last.arguments.keys))) =>
              /\ last.result = Return(<<TextContent(<<Win32Msg>>)>>)
              /\ last.bridge = <<>>
              /\ last.created = {}
        /\ (last.called /\ last.name \in TemplateTools) =>
              LET e == handle_call_tool(last.name, last.arguments, TRUE, last.outcome, {}, 1)
              IN  /\ last.result = e.result
                  /\ last.store = e.store

Win32UnavailableWitness ==
    /\ ~WIN32_AVAILABLE
    /\ last.called
    /\ last.name = "run"
    /\ last.arguments.given
    /\ last.arguments.code = "app.documents.add();"
    /\ last.result = Return(<<TextContent(<<Win32Msg>>)>>)

----------------------------------------------------------------------------
(* get_advanced_template *)

\* text holds the template's tokens, in order and unbroken
HasRaw(text, template) ==
    \E i \in 0..(Len(text) - Len(template)) :
        SubSeq(text, i + 1, i + Len(template)) = template

\* the parameters a template has a placeholder for
Referenced(template_type) ==
    {k \in ParamNames : Contains(get_advanced_templates[template_type], Placeholder(k))}

\* the last call was get_advanced_template with a template the store knows
\* and a non-empty parameters mapping, and the store raised nothing unforeseen
FillCall ==
    /\ last.called
    /\ last.name = "get_advanced_template"
    /\ last.outcome = OK
    /\ last.arguments.given
    /\ {"template_type", "parameters"} \subseteq last.arguments.keys
    /\ last.arguments.template_type \in TemplateIds
    /\ DOMAIN last.arguments.parameters # {}

\* one Text item with the raw template and the name of a missing
\* parameter, never "Error:"
RawTemplateAndMissingName ==
    LET tt == last.arguments.template_type
        text == last.result.items[1].text
    IN  /\ OneText(last.result)
        /\ text[1] # "Error: "
        /\ HasRaw(text, get_advanced_templates[tt])
        /\ \E k \in Referenced(tt) \ DOMAIN last.arguments.parameters :
               Contains(text, Repr(k))

----------------------------------------------------------------------------
(* get_prompt_suggestions *)

CategoryEnum == Range(Descriptor("get_prompt_suggestions").enum)

LabelsIn(text) == SelectSeq(text, LAMBDA tok : tok \in Range(StoreLabels))

SuggestionsCall == last.called /\ last.name = "get_prompt_suggestions"

HasCategory == last.arguments.given /\ "category" \in last.arguments.keys

\* the full listing: every store category, in store order, with its suggestions
FullListing(text) ==
    /\ LabelsIn(text) = StoreLabels
    /\ \A l \in Range(StoreLabels) :
           \A p \in Range(get_prompt_suggestions[l]) : Contains(text, p)

\* the "not found" message naming exactly the registry's enum values
NamesValidKeys(text, category) ==
    /\ Len(text) > 3
    /\ text[2] = category
    /\ LabelsIn(text) = <<>>
    /\ Range(SubSeq(text, 4, Len(text))) = CategoryEnum

\* the listing of one store category and of no other
FilteredListing(text) ==
    /\ Len(LabelsIn(text)) = 1
    /\ text[1] # "Category '"
    /\ \A l \in Range(StoreLabels) :
           \A p \in Range(get_prompt_suggestions[l]) :
               Contains(text, p) <=> l = LabelsIn(text)[1]

\* C10 as stated: one Text item in every case; no category gives the full
\* listing in store order; any category value outside the accepted set gives
\* the message naming the valid keys, which are the registry's enum values;
\* a value inside the enum gives the listing of that one category.
SuggestionsAsStated ==
    SuggestionsCall =>
        /\ OneText(last.result)
        /\ last.outcome = OK =>
             LET text == last.result.items[1].text
                 category == last.arguments.category
             IN  /\ ~HasCategory => FullListing(text)
                 /\ (HasCategory /\ category \notin CategoryEnum) =>
                        NamesValidKeys(text, category)
                 /\ (HasCategory /\ category \in CategoryEnum) => FilteredListing(text)

\* C10 amended: as stated for a non-empty hashable value outside the
\* accepted set; an empty category value is treated as no category and gives
\* the full listing, and an unhashable value gives one "Error:" Text item.
SuggestionsByCategory ==
    SuggestionsCall =>
        /\ OneText(last.result)
        /\ last.outcome = OK =>
             LET text == last.result.items[1].text
                 category == last.arguments.category
             IN  /\ (~HasCategory \/ category = "") => FullListing(text)
                 /\ (HasCategory /\ category = Unhashable) => text[1] = "Error: "
                 /\ (HasCategory /\ category \notin CategoryEnum \cup {"", Unhashable}) =>
                        NamesValidKeys(text, category)
                 /\ (HasCategory /\ category \in CategoryEnum) => FilteredListing(text)

EmptyCategoryWitness ==
    /\ SuggestionsCall
    /\ last.outcome = OK
    /\ HasCategory
    /\ last.arguments.category = ""
    /\ FullListing(last.result.items[1].text)


----------------------------------------------------------------------------
(* Serving *)

Answered(i) == \E j \in 1..Len(outbox) : outbox[j] = i

\* C8: a `view` or `run` call whose automation operation hangs does not
\* keep the transport from reading on: every request sent after such a call
\* began is eventually read and answered.
RequestsAfterHangAnswered ==
    \A i \in 1..MaxSent :
        []((pc = "hung" /\ nsent < i) => [](nsent >= i => <>Answered(i)))

====
